---- MODULE Spec2Model ----
(***************************************************************************)
(* A model of the MCP calculator: the FastMCP tool server of               *)
(* src/mcp_server.py (five arithmetic tools behind call_tool) and one run  *)
(* of run_mcp_query of src/mcp_client.py (tool discovery, then the         *)
(* LangGraph loop call_model -> should_continue -> tools -> call_model).   *)
(*                                                                         *)
(* Numbers.  A JSON argument or a tool result is a tagged value            *)
(*   [t |-> "int",   v |-> n]   the Python int n (exact, unbounded)        *)
(*   [t |-> "float", v |-> u]   the Python float u / FloatScale            *)
(*   [t |-> "str",   v |-> 0]   a non-numeric JSON string                  *)
(*   [t |-> "numstr", v |-> n]  the JSON string that spells the integer n  *)
(* and the arguments of a call are the sequence of the values given, in    *)
(* the order of the parameters (a shorter sequence: arguments are missing, *)
(* a longer one: arguments the signature does not name).                   *)
(* A float is kept as a whole number of units of 1/FloatScale: the float   *)
(* operations round their exact result to the nearest unit, as IEEE-754    *)
(* rounds to the nearest representable double.                             *)
(***************************************************************************)
EXTENDS Integers, Sequences, FiniteSets, TLC

\* ---------------------------------------------------------------- bounds
\* Units per 1.0 of the modelled float format.
FloatScale == 4
\* Most tool calls the policy requests in one AssistantMessage.
MaxCalls == 2
\* Policy invocations of a run that choose among the full request set.
MaxRich == 1
\* Most transport failures the environment injects into one run.
MaxTransportFailures == 1
\* Largest absolute value of an integer argument sent straight to the server.
MaxArg == 2
\* Handler executions after which the server is no longer sent requests.
MaxServed == 1
\* Clients that poll the server concurrently.
NumClients == 2
\* Discoveries each client makes.
MaxDiscoveries == 2

\* ------------------------------------------------------- program constants
\* Mutant of RecursionLimit: a larger limit.
RecursionLimit_larger == 25 + 2

\* graph.ainvoke is called without a config, so LangGraph's default
\* recursion_limit of 25 super-steps applies to every run.
RecursionLimit == 25

\* ----------------------------------------------------------------- values
I(n) == [t |-> "int", v |-> n]
F(u) == [t |-> "float", v |-> u]
Str == [t |-> "str", v |-> 0]
NumStr(n) == [t |-> "numstr", v |-> n]

Abs(n) == IF n < 0 THEN -n ELSE n

\* Floor division and the nearest integer to n / d (ties to even), d # 0.
FloorDiv(n, d) == IF d > 0 THEN n \div d ELSE (-n) \div (-d)

RoundDiv(n, d) ==
    LET q == FloorDiv(n, d)
        r2 == 2 * Abs(n - q * d)
    IN  IF r2 < Abs(d) THEN q
        ELSE IF r2 > Abs(d) THEN q + 1
        ELSE IF q % 2 = 0 THEN q ELSE q + 1

\* Floor of the square root of n >= 0, and the nearest integer to it.
ISqrt(n) == CHOOSE r \in 0..n : r * r <= n /\ (r + 1) * (r + 1) > n

RoundSqrt(n) == LET r == ISqrt(n) IN IF n - r * r > r THEN r + 1 ELSE r

\* ------------------------------------------------------ src/mcp_server.py
VARIABLES
    registry,         \* the tools of the server object mcp: their specs, in
                      \* registration order
    srvReq,           \* last tools/call request the server handled
    srvResp,          \* its response
    handlerRuns       \* executions of a decorated function on the server

\* The decorated functions, in registration (decoration) order.
ToolNames == <<"add", "multiply", "divide", "square_root", "factorial">>

\* The declared parameter types of each tool, in signature order.
Signature(name) ==
    CASE name = "add" -> <<"int", "int">>
      [] name = "multiply" -> <<"int", "int">>
      [] name = "divide" -> <<"float", "float">>
      [] name = "square_root" -> <<"float">>
      [] name = "factorial" -> <<"int">>

\* The declared return type of each tool.
Returns(name) ==
    IF name \in {"divide", "square_root"} THEN "float" ELSE "int"

\* What @mcp.tool() records for a function when the module is loaded.
ToolSpec(name) ==
    [name |-> name, params |-> Signature(name), returns |-> Returns(name)]

\* The registry once the module is loaded: one spec per decorated function.
Registration == [i \in 1..Len(ToolNames) |-> ToolSpec(ToolNames[i])]

Registered == {registry[i].name : i \in 1..Len(registry)}

\* A handler either returns a value or raises ValueError(msg).
Return(val) == [raised |-> FALSE, value |-> val, msg |-> "none"]
Raise(m) == [raised |-> TRUE, value |-> I(0), msg |-> m]

add(a, b) == Return(I(a + b))

multiply(a, b) == Return(I(a * b))

\* Mutant of divide: floor division (a // b) in place of true division.
divide_floor(a, b) ==
    IF b = 0 THEN Raise("Division by zero is not allowed.")
    ELSE Return(F(FloorDiv(a, b) * FloatScale))

\* a and b are floats, in units; a / b is rounded to the nearest unit.
divide(a, b) ==
    IF b = 0 THEN Raise("Division by zero is not allowed.")
    ELSE Return(F(RoundDiv(a * FloatScale, b)))

\* x is a float, in units; math.sqrt rounds the root to the nearest unit.
square_root(x) ==
    IF x < 0 THEN Raise("Cannot take square root of a negative number.")
    ELSE Return(F(RoundSqrt(x * FloatScale)))

RECURSIVE math_factorial(_)
math_factorial(n) == IF n <= 1 THEN 1 ELSE n * math_factorial(n - 1)

\* Mutant of factorial: the guard misses -1.
factorial_late_guard(n) ==
    IF n < -1 THEN Raise("Factorial is not defined for negative numbers.")
    ELSE Return(I(math_factorial(n)))

factorial(n) ==
    IF n < 0 THEN Raise("Factorial is not defined for negative numbers.")
    ELSE Return(I(math_factorial(n)))

\* Mutant of ValidArg: every value passes for every type.
ValidArg_any(type, val) == val.t \in {"int", "float", "str", "numstr"}

\* Argument validation of the generated argument model (pydantic, lax mode):
\* an int parameter takes an int, a float without fractional part or a
\* string that spells an integer; a float parameter takes an int, a float
\* or a string that spells a number; anything else is rejected.
ValidArg(type, val) ==
    \/ val.t = "int"
    \/ val.t = "numstr"
    \/ val.t = "float" /\ (type = "float" \/ val.v % FloatScale = 0)

\* The value handed to the function: converted to the declared type.
Coerce(type, val) ==
    IF type = "int"
    THEN (IF val.t = "float" THEN val.v \div FloatScale ELSE val.v)
    ELSE (IF val.t = "float" THEN val.v ELSE val.v * FloatScale)

\* Every parameter is required (none has a default); arguments that the
\* signature does not name are ignored.
ValidArgs(name, args) ==
    /\ Len(args) >= Len(Signature(name))
    /\ \A i \in 1..Len(Signature(name)) :
           ValidArg(Signature(name)[i], args[i])

Arg(name, args, i) == Coerce(Signature(name)[i], args[i])

\* Dispatch of a validated call to the decorated function.
RunHandler(name, args) ==
    CASE name = "add" -> add(Arg(name, args, 1), Arg(name, args, 2))
      [] name = "multiply" -> multiply(Arg(name, args, 1), Arg(name, args, 2))
      [] name = "divide" -> divide(Arg(name, args, 1), Arg(name, args, 2))
      [] name = "square_root" -> square_root(Arg(name, args, 1))
      [] name = "factorial" -> factorial(Arg(name, args, 1))

\* The CallToolResult the server sends back.  Every outcome is a result
\* frame: a success carries the value, a failure carries isError and the
\* error text (kind: which layer produced it; msg: the handler's message).
\* ran tells whether the decorated function was executed.
Success(val) ==
    [frame |-> "result", isError |-> FALSE, kind |-> "ok", value |-> val,
     msg |-> "none", ran |-> TRUE]

Failure(k, m, r) ==
    [frame |-> "result", isError |-> TRUE, kind |-> k, value |-> I(0),
     msg |-> m, ran |-> r]

\* Mutant of call_tool: an unknown name is answered with a protocol-level
\* error instead of a result.
call_tool_protocol_error(name, args) ==
    IF name \notin Registered
    THEN [frame |-> "jsonrpc_error", isError |-> TRUE, kind |-> "UnknownTool",
          value |-> I(0), msg |-> "Unknown tool", ran |-> FALSE]
    ELSE IF ~ValidArgs(name, args)
    THEN Failure("InvalidArguments", "validation error", FALSE)
    ELSE LET h == RunHandler(name, args)
         IN  IF h.raised THEN Failure("ValueError", h.msg, TRUE)
             ELSE Success(h.value)

\* FastMCP's handling of one tools/call request.
call_tool(name, args) ==
    IF name \notin Registered
    THEN Failure("UnknownTool", "Unknown tool", FALSE)
    ELSE IF ~ValidArgs(name, args)
    THEN Failure("InvalidArguments", "validation error", FALSE)
    ELSE LET h == RunHandler(name, args)
         IN  IF h.raised THEN Failure("ValueError", h.msg, TRUE)
             ELSE Success(h.value)

\* Mutant of list_tools: the tool called last is listed first.
list_tools_recent_first ==
    LET recent == SelectSeq(registry, LAMBDA t : t.name = srvReq.name)
        others == SelectSeq(registry, LAMBDA t : t.name # srvReq.name)
    IN  recent \o others

\* The answer to a tools/list request: the specs, in registration order.
list_tools == registry

\* ------------------------------------------------------ src/mcp_client.py
VARIABLES
    pc,               \* position of the run of run_mcp_query
    tools,            \* the tool list client.get_tools() returned
    messages,         \* state["messages"] of the graph
    step,             \* super-steps of the graph started so far
    calls,            \* tool calls of the ToolNode step in progress
    pending,          \* indices of calls whose coroutine has not finished
    results,          \* index -> outcome of the finished coroutines
    completed,        \* indices of calls of the last ToolNode step, in
                      \* the order they finished
    result,           \* the string run_mcp_query returned
    error,            \* the exception run_mcp_query raised
    handleToolErrors, \* the ToolNode default of the installed library
    policyCalls,      \* invocations of model_with_tools.ainvoke
    toolCalls,        \* tool invocations sent to the server by the run
    actingSteps,      \* ToolNode steps started
    failures,         \* transport failures injected so far
    discovered,       \* client -> the discoveries it has made so far
    current,          \* the run of run_mcp_query that is executing
    other             \* the state of the run that is suspended

vars == <<pc, tools, messages, step, calls, pending, results, completed,
          result, error, handleToolErrors, policyCalls, toolCalls,
          actingSteps, failures, srvReq, srvResp, handlerRuns, registry,
          discovered, current, other>>

runVars == <<pc, tools, messages, step, calls, pending, results, completed,
             result, error, policyCalls, toolCalls, actingSteps, failures>>

Clients == 1..NumClients

\* -------------------------------------------------------------- messages
NoId == <<0, 0>>

\* The user_input of each run.
Inputs ==
    <<"What is the square root of 16 plus 10?", "What is 1 divided by 0?">>

UserInput == Inputs[current]

HumanMessage(text) ==
    [type |-> "human", content |-> text, tool_calls |-> <<>>,
     tool_call_id |-> NoId, status |-> "none", kind |-> "none",
     value |-> I(0)]

AIMessage(text, tcs) ==
    [type |-> "ai", content |-> text, tool_calls |-> tcs,
     tool_call_id |-> NoId, status |-> "none", kind |-> "none",
     value |-> I(0)]

ToolMessage(text, id, st, k, val) ==
    [type |-> "tool", content |-> text, tool_calls |-> <<>>,
     tool_call_id |-> id, status |-> st, kind |-> k, value |-> val]

ToolCall(id, name, args) == [id |-> id, name |-> name, args |-> args]

Last(seq) == seq[Len(seq)]

\* ------------------------------------------------- the policy (the LLM)
\* What the model may ask for: a request is a tool name with arguments.
Request(name, args) == [name |-> name, args |-> args]

RichRequests ==
    { Request("divide", <<I(1), I(0)>>),
      Request("square_root", <<I(16)>>),
      Request("power", <<I(2), I(3)>>) }

FollowUpRequests == { Request("add", <<I(4), I(10)>>) }

Answers == {"14", "I cannot compute that."}

RECURSIVE SeqsUpTo(_, _)
SeqsUpTo(S, n) ==
    IF n = 0 THEN {<<>>}
    ELSE LET shorter == SeqsUpTo(S, n - 1)
         IN  shorter \cup {Append(s, x) : s \in shorter, x \in S}

\* The request lists the k-th policy invocation may return.
RequestLists(k) ==
    IF k <= MaxRich THEN SeqsUpTo(RichRequests, MaxCalls)
    ELSE {<<>>} \cup {<<r>> : r \in FollowUpRequests}

\* The AssistantMessage of the k-th invocation for a request list: a final
\* answer carries text, a tool-calling message carries the calls with ids.
Responses(k) ==
    {AIMessage(a, <<>>) : a \in Answers} \cup
    {AIMessage("", [i \in 1..Len(rs) |->
                        ToolCall(<<k, i>>, rs[i].name, rs[i].args)]) :
        rs \in RequestLists(k) \ {<<>>}}

\* The policy when two runs execute side by side: the LLM answers each run
\* from that run's messages, and the ids of its tool calls are unique
\* across runs.
RunRequestLists(run, k) ==
    IF run = 1
    THEN (IF k = 1 THEN {<<Request("square_root", <<I(16)>>)>>}
          ELSE IF k = 2 THEN {<<Request("add", <<I(4), I(10)>>)>>}
          ELSE {})
    ELSE (IF k = 1
          THEN {<<Request("divide", <<I(1), I(0)>>)>>,
                <<Request("multiply", <<I(2), I(2)>>),
                  Request("power", <<I(2), I(3)>>)>>}
          ELSE {})

RunAnswers(run) == IF run = 1 THEN {"14"} ELSE {"4", "I cannot compute that."}

RunResponses(run, k) ==
    {AIMessage(a, <<>>) : a \in RunAnswers(run)} \cup
    {AIMessage("", [i \in 1..Len(rs) |->
                        ToolCall(<<RecursionLimit * (run - 1) + k, i>>,
                                 rs[i].name, rs[i].args)]) :
        rs \in RunRequestLists(run, k)}

\* ----------------------------------------------------------- the ToolNode
\* The outcome of one tool-call coroutine: a ToolMessage, or an exception.
NoOutcome == [raised |-> FALSE, exc |-> "none", message |-> HumanMessage("")]

Done(msg) == [raised |-> FALSE, exc |-> "none", message |-> msg]

Raised(e, msg) == [raised |-> TRUE, exc |-> e, message |-> msg]

\* A requested name that is not among the discovered tools is answered by
\* the ToolNode itself with an error ToolMessage; nothing is sent.
InvalidToolMessage(call) ==
    ToolMessage("Error: not a valid tool", call.id, "error", "InvalidTool",
                I(0))

\* The MCP tool wrapper: a CallToolResult with isError becomes a
\* ToolException, any other result the content of a ToolMessage.
ToolOutcome(call, resp) ==
    IF resp.isError
    THEN Raised("ToolException",
                ToolMessage(resp.msg, call.id, "error", resp.kind, I(0)))
    ELSE Done(ToolMessage("result", call.id, "success", "ok", resp.value))

\* The request did not reach the server or the response did not come back.
TransportOutcome(call) ==
    Raised("ConnectError",
           ToolMessage("connection failed", call.id, "error",
                       "TransportError", I(0)))

\* Mutant of Gather: the outcomes in the order the coroutines finished in.
Gather_as_completed(res, order) ==
    [k \in 1..Len(order) |-> res[order[k]].message]

\* gather: the outcomes in the order of the calls, whatever order the
\* coroutines finished in.
Gather(res, order) == [i \in 1..Len(res) |-> res[i].message]

\* ------------------------------------------------------- the graph's edges
END == "__end__"

\* Mutant of should_continue: the test is inverted.
should_continue_inverted(msgs) ==
    IF Last(msgs).tool_calls # <<>> THEN "__end__" ELSE "tools"

should_continue(msgs) ==
    IF Last(msgs).tool_calls # <<>> THEN "tools" ELSE END

\* Mutant of FinalAnswer: the first message is read instead of the last.
FinalAnswer_first(msgs) == msgs[1].content

\* Lines 131-132: the content of the last message, as a string.
FinalAnswer(msgs) == Last(msgs).content

\* ------------------------------------------------------------------ Init
\* The locals of one run of run_mcp_query.
RunState ==
    [pc |-> pc, tools |-> tools, messages |-> messages, step |-> step,
     calls |-> calls, pending |-> pending, results |-> results,
     completed |-> completed, result |-> result, error |-> error,
     policyCalls |-> policyCalls, toolCalls |-> toolCalls,
     actingSteps |-> actingSteps, failures |-> failures]

\* The locals of a run that has not started.
InitialRun ==
    [pc |-> "discover", tools |-> <<>>, messages |-> <<>>, step |-> 0,
     calls |-> <<>>, pending |-> {}, results |-> <<>>, completed |-> <<>>,
     result |-> "none", error |-> "none", policyCalls |-> 0,
     toolCalls |-> 0, actingSteps |-> 0, failures |-> 0]

Init ==
    /\ pc = "discover"
    /\ tools = <<>>
    /\ messages = <<>>
    /\ step = 0
    /\ calls = <<>>
    /\ pending = {}
    /\ results = <<>>
    /\ completed = <<>>
    /\ result = "none"
    /\ error = "none"
    /\ handleToolErrors \in {"all", "reraise"}
    /\ policyCalls = 0
    /\ toolCalls = 0
    /\ actingSteps = 0
    /\ failures = 0
    /\ srvReq = Request("none", <<>>)
    /\ srvResp = Failure("none", "none", FALSE)
    /\ handlerRuns = 0
    /\ registry = Registration
    /\ discovered = [c \in Clients |-> <<>>]
    /\ current = 1
    /\ other = InitialRun

serverVars == <<srvReq, srvResp, handlerRuns, registry>>

\* --------------------------------------------------------------- actions
\* client.get_tools() succeeds; the graph is built and invoked with the
\* user's message (lines 69-128).
GetTools ==
    /\ pc = "discover"
    /\ tools' = list_tools
    /\ messages' = <<HumanMessage(UserInput)>>
    /\ pc' = "call_model"
    /\ UNCHANGED <<step, calls, pending, results, completed, result, error,
                   handleToolErrors, policyCalls, toolCalls, actingSteps,
                   failures, serverVars,
                   discovered, current, other>>

\* Mutant of GetToolsFails: the failure is swallowed and the run goes on
\* with no tools.
GetToolsFails_swallowed ==
    /\ pc = "discover"
    /\ tools' = <<>>
    /\ messages' = <<HumanMessage(UserInput)>>
    /\ pc' = "call_model"
    /\ UNCHANGED <<step, calls, pending, results, completed, result, error,
                   handleToolErrors, policyCalls, toolCalls, actingSteps,
                   failures, serverVars,
                   discovered, current, other>>

\* client.get_tools() raises: the server is unreachable (line 69).
GetToolsFails ==
    /\ pc = "discover"
    /\ pc' = "raised"
    /\ error' = "ConnectError"
    /\ UNCHANGED <<tools, messages, step, calls, pending, results, completed,
                   result, handleToolErrors, policyCalls, toolCalls,
                   actingSteps, failures, serverVars,
                   discovered, current, other>>

\* The graph has used up its super-steps and a node is still to run.
RecursionLimitReached ==
    /\ pc \in {"call_model", "tools"}
    /\ step >= RecursionLimit
    /\ pc' = "raised"
    /\ error' = "GraphRecursionError"
    /\ UNCHANGED <<tools, messages, step, calls, pending, results, completed,
                   result, handleToolErrors, policyCalls, toolCalls,
                   actingSteps, failures, serverVars,
                   discovered, current, other>>

\* call_model starts: the conversation is sent to the LLM (lines 103-104).
CallModelBegin ==
    /\ pc = "call_model"
    /\ step < RecursionLimit
    /\ step' = step + 1
    /\ policyCalls' = policyCalls + 1
    /\ pc' = "call_model_await"
    /\ UNCHANGED <<tools, messages, calls, pending, results, completed,
                   result, error, handleToolErrors, toolCalls, actingSteps,
                   failures, serverVars,
                   discovered, current, other>>

\* Mutant of CallModelEnd: a response without tool calls ends the run
\* without being added to the messages.
CallModelEnd_drops_final(response) ==
    /\ pc = "call_model_await"
    /\ IF response.tool_calls # <<>>
       THEN /\ messages' = Append(messages, response)
            /\ pc' = "tools"
            /\ UNCHANGED result
       ELSE /\ pc' = "returned"
            /\ result' = response.content
            /\ UNCHANGED messages
    /\ UNCHANGED <<tools, step, calls, pending, results, completed, error,
                   handleToolErrors, policyCalls, toolCalls, actingSteps,
                   failures, serverVars,
                   discovered, current, other>>

\* The LLM answers: the response is added to the messages (line 105) and
\* should_continue routes to the tools node or to END, where the run
\* returns the content of the last message (lines 131-132).
CallModelEnd(response) ==
    /\ pc = "call_model_await"
    /\ messages' = Append(messages, response)
    /\ IF should_continue(messages') = "tools"
       THEN pc' = "tools" /\ UNCHANGED result
       ELSE pc' = "returned" /\ result' = FinalAnswer(messages')
    /\ UNCHANGED <<tools, step, calls, pending, results, completed, error,
                   handleToolErrors, policyCalls, toolCalls, actingSteps,
                   failures, serverVars,
                   discovered, current, other>>

\* The tools node starts: one coroutine per tool call of the last message.
ToolsBegin ==
    /\ pc = "tools"
    /\ step < RecursionLimit
    /\ LET tcs == Last(messages).tool_calls
           known == {tools[j].name : j \in 1..Len(tools)}
           sent == {i \in 1..Len(tcs) : tcs[i].name \in known}
       IN  /\ calls' = tcs
           /\ pending' = sent
           /\ results' = [i \in 1..Len(tcs) |->
                            IF i \in sent THEN NoOutcome
                            ELSE Done(InvalidToolMessage(tcs[i]))]
           /\ completed' = SelectSeq([i \in 1..Len(tcs) |-> i],
                                     LAMBDA i : i \notin sent)
           /\ toolCalls' = toolCalls + Cardinality(sent)
    /\ step' = step + 1
    /\ actingSteps' = actingSteps + 1
    /\ pc' = "tools_await"
    /\ UNCHANGED <<tools, messages, result, error, handleToolErrors,
                   policyCalls, failures, serverVars,
                   discovered, current, other>>

\* The outcome of call i is kept: a ToolMessage, also for an exception when
\* the ToolNode handles tool errors.
Keep(i, outcome) ==
    /\ results' = [results EXCEPT ![i] = Done(outcome.message)]
    /\ pending' = pending \ {i}
    /\ completed' = Append(completed, i)
    /\ UNCHANGED <<pc, error>>

\* The exception of call i leaves the ToolNode: the graph run fails.
Propagate(outcome) ==
    /\ pc' = "raised"
    /\ error' = outcome.exc
    /\ UNCHANGED <<results, pending, completed>>

\* ToolNode(tools) is built without handle_tool_errors, so the default of
\* the installed langgraph-prebuilt decides what happens to an exception of
\* a tool call: "all" (the default True of the releases before 1.0) turns
\* every exception into an error ToolMessage, "reraise" (the default of 1.0
\* and later) lets the exceptions of tool execution leave the node.  The
\* source pins no release: Init leaves the choice open.
Settle(i, outcome) ==
    IF outcome.raised /\ handleToolErrors # "all"
    THEN Propagate(outcome)
    ELSE Keep(i, outcome)

\* The server handles call i and its response comes back.
ToolReturns(i) ==
    /\ pc = "tools_await"
    /\ i \in pending
    /\ LET resp == call_tool(calls[i].name, calls[i].args)
       IN  /\ srvReq' = Request(calls[i].name, calls[i].args)
           /\ srvResp' = resp
           /\ handlerRuns' = handlerRuns + (IF resp.ran THEN 1 ELSE 0)
           /\ Settle(i, ToolOutcome(calls[i], resp))
    /\ UNCHANGED <<tools, messages, step, calls, result, handleToolErrors,
                   policyCalls, toolCalls, actingSteps, failures, registry,
                   discovered, current, other>>

\* The transport fails for call i (the environment injects such failures
\* into the acting steps that follow the first MaxRich policy invocations).
ToolTransportFails(i) ==
    /\ pc = "tools_await"
    /\ i \in pending
    /\ failures < MaxTransportFailures
    /\ policyCalls <= MaxRich
    /\ failures' = failures + 1
    /\ Settle(i, TransportOutcome(calls[i]))
    /\ UNCHANGED <<tools, messages, step, calls, result, handleToolErrors,
                   policyCalls, toolCalls, actingSteps, serverVars,
                   discovered, current, other>>

\* Mutant of ToolsEnd: the ToolMessages take the place of the message that
\* requested them.
ToolsEnd_replaces_request ==
    /\ pc = "tools_await"
    /\ pending = {}
    /\ messages' = SubSeq(messages, 1, Len(messages) - 1)
                       \o Gather(results, completed)
    /\ calls' = <<>>
    /\ results' = <<>>
    /\ pc' = "call_model"
    /\ UNCHANGED <<tools, step, pending, completed, result, error,
                   handleToolErrors,
                   policyCalls, toolCalls, actingSteps, failures, serverVars,
                   discovered, current, other>>

\* Every coroutine has finished: the ToolMessages are added to the messages
\* and the edge tools -> call_model is taken.
ToolsEnd ==
    /\ pc = "tools_await"
    /\ pending = {}
    /\ messages' = messages \o Gather(results, completed)
    /\ calls' = <<>>
    /\ results' = <<>>
    /\ pc' = "call_model"
    /\ UNCHANGED <<tools, step, pending, completed, result, error,
                   handleToolErrors,
                   policyCalls, toolCalls, actingSteps, failures, serverVars,
                   discovered, current, other>>

Next ==
    \/ GetTools
    \/ GetToolsFails
    \/ RecursionLimitReached
    \/ CallModelBegin
    \/ \E response \in Responses(policyCalls) : CallModelEnd(response)
    \/ ToolsBegin
    \/ \E i \in pending : ToolReturns(i)
    \/ \E i \in pending : ToolTransportFails(i)
    \/ ToolsEnd

Spec == Init /\ [][Next]_vars

\* ------------------------------------------- the server on its own
\* Any client may send any tools/call request: a registered or an unknown
\* name, with well-typed, ill-typed or missing arguments.

\* Integers are unbounded in the program; the arguments stay small enough
\* for every result to be computed exactly.
ArgInts == (-MaxArg..MaxArg) \cup {5}

ArgValues ==
    {I(n) : n \in ArgInts} \cup {F(2), F(2 * FloatScale)}
        \cup {Str, NumStr(2)}

RequestNames == {ToolNames[i] : i \in 1..Len(ToolNames)} \cup {"power"}

\* Mutant of ServerCall: a tool whose call failed is dropped from the
\* registry.
ServerCall_drops_failed(name, args) ==
    /\ handlerRuns < MaxServed
    /\ LET resp == call_tool(name, args)
       IN  /\ srvReq' = Request(name, args)
           /\ srvResp' = resp
           /\ handlerRuns' = handlerRuns + (IF resp.ran THEN 1 ELSE 0)
           /\ registry' = IF resp.isError
                          THEN SelectSeq(registry, LAMBDA t : t.name # name)
                          ELSE registry
    /\ UNCHANGED <<runVars, handleToolErrors, discovered, current, other>>

\* One tools/call request, from any client: the registry is only read.
ServerCall(name, args) ==
    /\ handlerRuns < MaxServed
    /\ LET resp == call_tool(name, args)
       IN  /\ srvReq' = Request(name, args)
           /\ srvResp' = resp
           /\ handlerRuns' = handlerRuns + (IF resp.ran THEN 1 ELSE 0)
    /\ UNCHANGED <<runVars, handleToolErrors, registry, discovered, current, other>>

ServerRequests ==
    {Request(name, args) :
        name \in RequestNames, args \in SeqsUpTo(ArgValues, 2)}
    \cup {Request("divide", <<I(10), I(2)>>),
          Request("square_root", <<I(16)>>),
          Request("multiply", <<I(4), I(5)>>)}

NextServer == \E req \in ServerRequests : ServerCall(req.name, req.args)

SpecServer == Init /\ [][NextServer]_vars

\* ------------------------------------------- two runs side by side
\* Each Streamlit session calls asyncio.run(run_mcp_query(...)) on its own;
\* two runs execute in any interleaving of their steps.  The executing run
\* works on the run variables and the suspended run's locals are kept in
\* other; a switch of the scheduler exchanges the two.

\* Mutant of Switch: the messages are one list that both runs use.
Switch_shared_messages ==
    /\ current' = 3 - current
    /\ other' = RunState
    /\ pc' = other.pc
    /\ tools' = other.tools
    /\ step' = other.step
    /\ calls' = other.calls
    /\ pending' = other.pending
    /\ results' = other.results
    /\ completed' = other.completed
    /\ result' = other.result
    /\ error' = other.error
    /\ policyCalls' = other.policyCalls
    /\ toolCalls' = other.toolCalls
    /\ actingSteps' = other.actingSteps
    /\ failures' = other.failures
    /\ UNCHANGED <<messages, handleToolErrors, serverVars, discovered>>

\* The scheduler suspends the executing run and resumes the other one.
Switch ==
    /\ current' = 3 - current
    /\ other' = RunState
    /\ pc' = other.pc
    /\ tools' = other.tools
    /\ messages' = other.messages
    /\ step' = other.step
    /\ calls' = other.calls
    /\ pending' = other.pending
    /\ results' = other.results
    /\ completed' = other.completed
    /\ result' = other.result
    /\ error' = other.error
    /\ policyCalls' = other.policyCalls
    /\ toolCalls' = other.toolCalls
    /\ actingSteps' = other.actingSteps
    /\ failures' = other.failures
    /\ UNCHANGED <<handleToolErrors, serverVars, discovered>>

NextParallel ==
    \/ GetTools
    \/ GetToolsFails
    \/ CallModelBegin
    \/ \E response \in RunResponses(current, policyCalls) :
           CallModelEnd(response)
    \/ ToolsBegin
    \/ \E i \in pending : ToolReturns(i)
    \/ ToolsEnd
    \/ Switch

SpecParallel == Init /\ [][NextParallel]_vars

\* ------------------------------------- several clients of one server
\* Each client is a MultiServerMCPClient of its own; their tools/list and
\* tools/call requests reach the one server process in any interleaving,
\* and the server handles each request to its end before the next.

\* One tools/list request of client c: client.get_tools().
ClientDiscovers(c) ==
    /\ Len(discovered[c]) < MaxDiscoveries
    /\ discovered' = [discovered EXCEPT
                         ![c] = Append(@, [tools |-> list_tools,
                                           after |-> handlerRuns])]
    /\ UNCHANGED <<runVars, handleToolErrors, serverVars, current, other>>

\* The tools/call requests the clients send: successes, a handler failure,
\* an unknown name and ill-typed arguments.
ClientRequests ==
    RichRequests \cup FollowUpRequests
        \cup {Request("add", <<Str, I(1)>>),
              Request("factorial", <<I(-1)>>),
              Request("multiply", <<I(2), I(2)>>)}

NextClients ==
    \/ \E c \in Clients : ClientDiscovers(c)
    \/ \E req \in ClientRequests : ServerCall(req.name, req.args)

SpecClients == Init /\ [][NextClients]_vars

\* ------------------------------------------------- properties: the server
\* The request the server handled last, read without the model's coercion.
Numeric(val) == val.t \in {"int", "float"}

Whole(val) == val.t = "int" \/ (val.t = "float" /\ val.v % FloatScale = 0)

\* The number val in float units, and as an integer.
Units(val) == IF val.t = "int" THEN val.v * FloatScale ELSE val.v

WholeOf(val) == IF val.t = "int" THEN val.v ELSE val.v \div FloatScale

Served(name) == srvReq.name = name

TwoNumbers == Len(srvReq.args) = 2 /\ \A i \in 1..2 : Numeric(srvReq.args[i])

TwoWholes == Len(srvReq.args) = 2 /\ \A i \in 1..2 : Whole(srvReq.args[i])

OneNumber == Len(srvReq.args) = 1 /\ Numeric(srvReq.args[1])

OneWhole == Len(srvReq.args) = 1 /\ Whole(srvReq.args[1])

DomainFailure(resp, m) ==
    /\ resp.frame = "result"
    /\ resp.isError
    /\ resp.kind = "ValueError"
    /\ resp.msg = m

DivideByZero ==
    Served("divide") /\ TwoNumbers /\ Units(srvReq.args[2]) = 0

NegativeRoot ==
    Served("square_root") /\ OneNumber /\ Units(srvReq.args[1]) < 0

NegativeFactorial ==
    Served("factorial") /\ OneWhole /\ WholeOf(srvReq.args[1]) < 0

\* C8: a handler called outside its domain yields a Failure carrying the
\* handler's domain error and never a Success: divide with b = 0 for every
\* a, square_root of a negative x, factorial of a negative n.
C8_DomainErrorsAreFailures ==
    /\ DivideByZero =>
           DomainFailure(srvResp, "Division by zero is not allowed.")
    /\ NegativeRoot =>
           DomainFailure(srvResp,
                         "Cannot take square root of a negative number.")
    /\ NegativeFactorial =>
           DomainFailure(srvResp,
                         "Factorial is not defined for negative numbers.")

C8_Witness ==
    /\ srvReq = Request("factorial", <<I(-1)>>)
    /\ srvResp.isError
    /\ srvResp.ran

\* n! as the product 1 * 2 * ... * n.
RECURSIVE ProductUpTo(_)
ProductUpTo(n) == IF n = 0 THEN 1 ELSE ProductUpTo(n - 1) * n

IsSuccess(resp) == resp.frame = "result" /\ ~resp.isError /\ resp.kind = "ok"

\* q units is the float nearest to a / b (a, b in units, b # 0).
NearestQuotient(q, a, b) == 2 * Abs(q * b - a * FloatScale) <= Abs(b)

\* r units is the non-negative float nearest to the square root of x units.
NearestRoot(r, x) ==
    /\ r >= 0
    /\ (2 * r - 1) * (2 * r - 1) <= 4 * x * FloatScale \/ r = 0
    /\ 4 * x * FloatScale <= (2 * r + 1) * (2 * r + 1)

\* C9: a registered tool called with valid arguments of the declared types
\* returns Success with the mathematically correct value: a + b, a * b and
\* n! exactly (0! = 1), and for divide and square_root, which compute in
\* floating point, the float nearest to a / b and to the non-negative root
\* (exactly 5 for divide(10, 2) and 4 for square_root(16)).
C9_CorrectValues ==
    /\ Served("add") /\ TwoWholes =>
           /\ IsSuccess(srvResp)
           /\ srvResp.value =
                  I(WholeOf(srvReq.args[1]) + WholeOf(srvReq.args[2]))
    /\ Served("multiply") /\ TwoWholes =>
           /\ IsSuccess(srvResp)
           /\ srvResp.value =
                  I(WholeOf(srvReq.args[1]) * WholeOf(srvReq.args[2]))
    /\ Served("factorial") /\ OneWhole /\ WholeOf(srvReq.args[1]) >= 0 =>
           /\ IsSuccess(srvResp)
           /\ srvResp.value = I(ProductUpTo(WholeOf(srvReq.args[1])))
    /\ Served("divide") /\ TwoNumbers /\ Units(srvReq.args[2]) # 0 =>
           /\ IsSuccess(srvResp)
           /\ srvResp.value.t = "float"
           /\ NearestQuotient(srvResp.value.v, Units(srvReq.args[1]),
                              Units(srvReq.args[2]))
    /\ Served("square_root") /\ OneNumber /\ Units(srvReq.args[1]) >= 0 =>
           /\ IsSuccess(srvResp)
           /\ srvResp.value.t = "float"
           /\ NearestRoot(srvResp.value.v, Units(srvReq.args[1]))
    /\ srvReq = Request("divide", <<I(10), I(2)>>) =>
           srvResp.value = F(5 * FloatScale)
    /\ srvReq = Request("square_root", <<I(16)>>) =>
           srvResp.value = F(4 * FloatScale)
    /\ srvReq = Request("factorial", <<I(0)>>) => srvResp.value = I(1)
    /\ srvReq = Request("factorial", <<I(5)>>) => srvResp.value = I(120)
    /\ srvReq = Request("multiply", <<I(4), I(5)>>) => srvResp.value = I(20)

C9_Witness ==
    /\ srvReq = Request("divide", <<I(1), I(2)>>)
    /\ IsSuccess(srvResp)
    /\ NearestQuotient(srvResp.value.v, FloatScale, 2 * FloatScale)

\* C10: a request naming a tool that is not registered is answered with a
\* result frame that carries a Failure naming the unknown tool; it is never
\* a protocol-level fault, and no handler is executed for it.
UnknownToolAnswer ==
    srvReq.name \notin Registered \cup {"none"} =>
        /\ srvResp.frame = "result"
        /\ srvResp.isError
        /\ srvResp.kind = "UnknownTool"
        /\ ~srvResp.ran

UnknownToolRunsNothing ==
    (srvReq' # srvReq /\ srvReq'.name \notin Registered) =>
        handlerRuns' = handlerRuns

C10_UnknownToolIsFailure ==
    [] UnknownToolAnswer /\ [][UnknownToolRunsNothing]_vars

C10_Witness ==
    /\ srvReq = Request("power", <<I(2), I(2)>>)
    /\ srvResp.isError
    /\ srvResp.kind = "UnknownTool"

\* ---------------------------------------------------- properties: the run
Started == Len(messages) >= 1

\* The AssistantMessage of the first policy invocation, once it is there.
FirstDecided == Len(messages) >= 2

FirstDecisionEmpty == FirstDecided /\ messages[2].tool_calls = <<>>

\* C1: when the first policy invocation returns no tool calls, the run has
\* terminated with exactly one policy invocation and no tool invocation.
C1_NoCallsOneDecision ==
    FirstDecisionEmpty =>
        /\ pc = "returned"
        /\ policyCalls = 1
        /\ toolCalls = 0
        /\ actingSteps = 0
        /\ Len(messages) = 2

C1_Witness == FirstDecisionEmpty /\ pc = "returned" /\ result = "14"

\* The first acting step of the run is over (or was never started).
FirstActingOver ==
    \/ pc \in {"call_model", "call_model_await", "returned"} /\ actingSteps >= 1
    \/ pc = "raised"

\* C2 as stated, for the runs without a transport failure: when the first
\* policy invocation requests N >= 1 calls, the acting step appends N
\* ToolMessages in request order, and when the second invocation requests
\* nothing the run terminates there, after one acting step and two policy
\* invocations.
C2_Original ==
    (FirstDecided /\ ~FirstDecisionEmpty /\ FirstActingOver
         /\ failures = 0) =>
        LET tcs == messages[2].tool_calls
            N == Len(tcs)
        IN  /\ Len(messages) >= 2 + N
            /\ \A i \in 1..N :
                   /\ messages[2 + i].type = "tool"
                   /\ messages[2 + i].tool_call_id = tcs[i].id
            /\ (Len(messages) >= 3 + N /\ messages[3 + N].tool_calls = <<>>) =>
                   /\ pc = "returned"
                   /\ policyCalls = 2
                   /\ actingSteps = 1
                   /\ Len(messages) = 3 + N

\* C3 as stated, for the runs without a transport failure: the run starts
\* with call_model, call_model is followed by tools or the end of the run,
\* tools is followed by call_model, and one node is in progress at a time.
Alternates ==
    failures' = 0 =>
    /\ pc = "discover" => pc' \in {"call_model", "raised"}
    /\ pc = "call_model" => pc' \in {"call_model_await", "raised"}
    /\ pc = "call_model_await" => pc' \in {"tools", "returned"}
    /\ pc = "tools" => pc' \in {"tools_await", "raised"}
    /\ pc = "tools_await" => pc' \in {"tools_await", "call_model"}
    /\ pc = "call_model" /\ pc' = "raised" => error' = "GraphRecursionError"
    /\ pc = "tools" /\ pc' = "raised" => error' = "GraphRecursionError"

C3_Original == [][Alternates]_vars

\* C4 as stated, for a handler that raises: the run never aborts on the
\* tool failure.
HandlerFailureAborts == pc = "raised" /\ error = "ToolException"

C4_Original == ~HandlerFailureAborts

\* C5: the policy has asked for a tool call at every invocation so far.
AlwaysRequested ==
    /\ policyCalls >= 1
    /\ \A i \in 1..Len(messages) :
           messages[i].type = "ai" => messages[i].tool_calls # <<>>

\* C5 as stated, for the builds in which no tool failure leaves the
\* ToolNode: such a run neither returns nor raises.
C5_Original ==
    (AlwaysRequested /\ handleToolErrors = "all") =>
        pc \notin {"returned", "raised"}

\* C5, amended: for a policy that asks for a tool call at every invocation
\* the run never returns an answer, and it does not go on for ever: it is
\* stopped with GraphRecursionError at the default recursion limit of 25
\* super-steps, so that it makes at most 13 policy invocations and at most
\* 13 acting steps; before that it raises only on a tool failure.
C5_StoppedAtRecursionLimit ==
    AlwaysRequested =>
        /\ pc # "returned"
        /\ step <= 25
        /\ policyCalls <= 13
        /\ actingSteps <= 13
        /\ (pc = "raised" /\ error = "GraphRecursionError") => step = 25
        /\ pc = "raised" =>
               error \in {"GraphRecursionError", "ToolException",
                          "ConnectError"}

C5_Witness ==
    /\ AlwaysRequested
    /\ pc = "raised"
    /\ error = "GraphRecursionError"
    /\ policyCalls = 13

\* C6: the string a run returns is the content of the last message, which
\* is the AssistantMessage of the last policy invocation and carries no
\* tool calls: no other message is read for the answer.
C6_AnswerIsLastAssistantText ==
    pc = "returned" =>
        /\ Last(messages).type = "ai"
        /\ Last(messages).tool_calls = <<>>
        /\ result = Last(messages).content
        /\ Cardinality({i \in 1..Len(messages) : messages[i].type = "ai"})
               = policyCalls

C6_Witness ==
    /\ pc = "returned"
    /\ result = "14"
    /\ actingSteps = 2
    /\ Len(messages) >= 5

\* C7: when discovery fails the run raises the error at once, with no
\* policy invocation and no tool invocation; and no policy invocation is
\* made before discovery has returned the tools.
DiscoveryFailed == pc = "raised" /\ ~Started

C7_DiscoveryFailureIsFatal ==
    /\ DiscoveryFailed =>
           /\ error = "ConnectError"
           /\ result = "none"
           /\ policyCalls = 0
           /\ toolCalls = 0
           /\ step = 0
    /\ (policyCalls > 0 \/ toolCalls > 0) => tools = list_tools
    /\ pc # "discover" => (Started \/ pc = "raised")

C7_Witness == DiscoveryFailed /\ error = "ConnectError" /\ tools = <<>>

\* C11: argument validation before dispatch.
ServedRegistered == srvReq.name \in Registered

Params == Signature(srvReq.name)

MissingArgument == Len(srvReq.args) < Len(Params)

Given == 1..(IF MissingArgument THEN Len(srvReq.args) ELSE Len(Params))

\* The JSON type of the value is not the declared type of the parameter:
\* a string for a number, a number with a fractional part for an int.
TypeMismatch(type, val) ==
    \/ val.t \in {"str", "numstr"}
    \/ type = "int" /\ val.t = "float" /\ val.v % FloatScale # 0

\* The value cannot be converted to the declared type.
Unconvertible(type, val) ==
    \/ val.t = "str"
    \/ type = "int" /\ val.t = "float" /\ val.v % FloatScale # 0

InvalidArgumentFailure ==
    /\ srvResp.frame = "result"
    /\ srvResp.isError
    /\ srvResp.kind = "InvalidArguments"
    /\ ~srvResp.ran

\* C11 as stated: a registered tool called with a missing argument or with
\* an argument whose type is not the declared one yields a Failure for the
\* invalid arguments, and its handler is not executed.
C11_Original ==
    (ServedRegistered /\
     (MissingArgument \/ \E i \in Given : TypeMismatch(Params[i], srvReq.args[i])))
        => InvalidArgumentFailure

\* C11, amended: a registered tool called with a missing argument or with
\* an argument that cannot be converted to the declared type (a non-numeric
\* string, a number with a fractional part for an int) yields a Failure for
\* the invalid arguments and its handler is not executed; when every
\* parameter is given a value that converts to its type (a string that
\* spells a number included), the handler is executed.
C11_UnconvertibleArgumentsFail ==
    ServedRegistered =>
        IF MissingArgument
               \/ \E i \in Given : Unconvertible(Params[i], srvReq.args[i])
        THEN InvalidArgumentFailure
        ELSE srvResp.ran /\ srvResp.kind \in {"ok", "ValueError"}

C11_Witness ==
    /\ srvReq = Request("add", <<Str, I(1)>>)
    /\ InvalidArgumentFailure
    /\ handlerRuns = 0

\* ------------------------------------------- properties: the conversation
\* The ToolMessages that answer the AssistantMessage at position j follow
\* it directly, one per tool call, in the order of the calls.
AnsweredInOrder(j) ==
    LET tcs == messages[j].tool_calls
    IN  /\ Len(messages) >= j + Len(tcs)
        /\ \A i \in 1..Len(tcs) :
               /\ messages[j + i].type = "tool"
               /\ messages[j + i].tool_call_id = tcs[i].id

\* C12: whatever order the concurrent invocations of an acting step finish
\* in, the ToolMessages are appended in the order of the requests of the
\* last AssistantMessage.
C12_ResultsInRequestOrder ==
    \A j \in 1..Len(messages) :
        (messages[j].type = "ai" /\ Len(messages) > j) => AnsweredInOrder(j)

\* Two invocations finished in the reverse order of their requests, and
\* their results are in the conversation.
C12_Witness ==
    /\ pc = "call_model"
    /\ completed = <<2, 1>>
    /\ Len(messages) = 4
    /\ messages[3].tool_call_id = <<1, 1>>
    /\ messages[4].tool_call_id = <<1, 2>>

\* ------------------------------------------------ properties: the registry
\* C14: whatever requests the clients have sent, failed ones included, the
\* registry holds exactly the tools registered when the server module was
\* loaded, each with its spec as registered and under a name of its own.
UniqueNames ==
    \A i, j \in 1..Len(registry) :
        registry[i].name = registry[j].name => i = j

C14_RegistryFixed ==
    /\ registry = Registration
    /\ UniqueNames
    /\ \A i \in 1..Len(registry) : registry[i] = ToolSpec(ToolNames[i])

C14_Witness ==
    /\ srvReq = Request("divide", <<I(1), I(0)>>)
    /\ srvResp.isError
    /\ srvResp.ran
    /\ \A c \in Clients : discovered[c] # <<>>
    /\ discovered[1][1].after = 0
    /\ discovered[2][1].after = 1

\* C15: every discovery of a client returns the list its earlier
\* discoveries returned, in the same order, whatever tools were invoked in
\* between.
C15_DiscoveryIdempotent ==
    \A c \in Clients :
        \A i, j \in 1..Len(discovered[c]) :
            discovered[c][i].tools = discovered[c][j].tools

C15_Witness ==
    /\ Len(discovered[1]) = 2
    /\ discovered[1][1].after = 0
    /\ discovered[1][2].after = 1
    /\ srvReq = Request("square_root", <<I(16)>>)
    /\ ~srvResp.isError

\* ------------------------------------------- properties: the conversation
\* The AssistantMessages that request tool calls.
Requesting ==
    {i \in 1..Len(messages) :
        messages[i].type = "ai" /\ messages[i].tool_calls # <<>>}

RECURSIVE CallsRequested(_)
CallsRequested(n) ==
    IF n = 0 THEN 0
    ELSE CallsRequested(n - 1)
             + (IF messages[n].type = "ai" THEN Len(messages[n].tool_calls)
                ELSE 0)

Over == pc \in {"returned", "raised"}

\* C16 as stated, for the runs without a transport failure that stay below
\* the recursion limit: a run whose policy has requested tool calls k times
\* ends by returning, after k acting steps and k + 1 policy invocations,
\* with every requested call answered in the conversation.
C16_Original ==
    (Started /\ Over /\ failures = 0 /\ step < RecursionLimit) =>
        /\ pc = "returned"
        /\ actingSteps = Cardinality(Requesting)
        /\ policyCalls = Cardinality(Requesting) + 1
        /\ Len(messages) = 1 + policyCalls + CallsRequested(Len(messages))

\* C17: the conversation starts with the one HumanMessage of the input, and
\* every step of the run leaves the messages it found as a prefix of the
\* messages it leaves.
SeededOnce ==
    Started =>
        /\ messages[1] = HumanMessage(UserInput)
        /\ \A i \in 2..Len(messages) : messages[i].type # "human"

PrefixKept ==
    /\ Len(messages') >= Len(messages)
    /\ SubSeq(messages', 1, Len(messages)) = messages

C17_AppendOnly == [] SeededOnce /\ [][PrefixKept]_vars

C17_Witness ==
    /\ pc = "call_model"
    /\ actingSteps = 2
    /\ Len(messages) = 5
    /\ messages[3].type = "tool"
    /\ messages[5].type = "tool"

\* A deciding step ends: the response of the LLM has arrived.
Decides == pc = "call_model_await" /\ pc' # pc

\* C18 as stated: the response is added to the conversation only when it
\* requests tool calls; a response that requests none ends the run and
\* leaves the conversation as it was.
C18_Original ==
    [][Decides =>
          IF pc' = "tools"
          THEN /\ Len(messages') = Len(messages) + 1
               /\ Last(messages').tool_calls # <<>>
          ELSE /\ pc' = "returned"
               /\ messages' = messages]_vars

\* C18: the response is always added to the conversation; when it requests
\* no tool call the run returns its text, and the conversation ends with it.
C18_ResponseAlwaysAppended ==
    [][Decides =>
          /\ Len(messages') = Len(messages) + 1
          /\ PrefixKept
          /\ Last(messages').type = "ai"
          /\ IF Last(messages').tool_calls # <<>>
             THEN pc' = "tools" /\ result' = result
             ELSE pc' = "returned" /\ result' = Last(messages').content]_vars

C18_Witness ==
    /\ pc = "returned"
    /\ actingSteps = 1
    /\ Len(messages) = 4
    /\ messages[4].type = "ai"
    /\ messages[4].tool_calls = <<>>
    /\ result = messages[4].content

\* ------------------------------------------------ properties: two runs
\* The ToolMessage that answers a tool call of a run.
Answer(call) ==
    IF call.name \in Registered
    THEN ToolOutcome(call, call_tool(call.name, call.args)).message
    ELSE InvalidToolMessage(call)

\* The responses the policy has given to a run so far.
RunDecisions(run, st) ==
    UNION {RunResponses(run, k) : k \in 1..st.policyCalls}

\* The conversation of a run holds that run's input, responses the policy
\* gave to that run, and the answers to the tool calls of those responses;
\* the string it returns is the text of its own last response.
Owned(run, st) ==
    LET msgs == st.messages
    IN  /\ msgs # <<>> => msgs[1] = HumanMessage(Inputs[run])
        /\ \A i \in 2..Len(msgs) :
               \/ /\ msgs[i].type = "ai"
                  /\ msgs[i] \in RunDecisions(run, st)
               \/ /\ msgs[i].type = "tool"
                  /\ \E j \in 2..(i - 1) :
                         /\ msgs[j] \in RunDecisions(run, st)
                         /\ \E c \in 1..Len(msgs[j].tool_calls) :
                                msgs[i] = Answer(msgs[j].tool_calls[c])
        /\ st.pc = "returned" =>
               /\ st.result = Last(msgs).content
               /\ st.result \in RunAnswers(run)

\* A step of the executing run leaves the suspended run as it is, and a
\* switch resumes the suspended run in the state it was suspended in.
RunsIsolated ==
    IF current' # current
    THEN RunState' = other /\ other' = RunState
    ELSE other' = other

\* C13: under every interleaving of two runs, each run's conversation holds
\* only its own messages, no step of one run changes the state of the other,
\* and each run returns the text of its own last response.
C13_RunsShareNoState ==
    [] (Owned(current, RunState) /\ Owned(3 - current, other))
        /\ [][RunsIsolated]_vars

C13_Witness ==
    /\ current = 2
    /\ pc = "returned"
    /\ result = "4"
    /\ actingSteps = 1
    /\ other.pc = "tools_await"
    /\ other.actingSteps = 2
    /\ other.messages[1] = HumanMessage(Inputs[1])
    /\ messages[1] = HumanMessage(Inputs[2])

====
